---------------------------- MODULE Spec2Model ----------------------------
(***************************************************************************)
(* A model of the IFR extractor library (src/src/lib.rs): the package      *)
(* locators find_uefi_packages / find_framework_packages, the              *)
(* cross-referencer that collects the string IDs of a form package, and    *)
(* the opcode formatters extract_uefi_ifr / extract_framework_ifr.         *)
(*                                                                         *)
(* The nom parsers of the modules framework_parser and uefi_parser are not *)
(* part of src/.  What they return on the bytes at an offset is therefore  *)
(* an input of the model: each scan iteration draws the parsers' results   *)
(* for data[i..] from the outcomes the specification allows (spec.md 3,    *)
(* 4.1-4.3).  Every offset is probed once per scan and the string and the  *)
(* form parsers look for different package types, so drawing the results   *)
(* when an offset is probed is the same as fixing the buffer in advance.   *)
(* Of the sizes only those the scans depend on are kept: a candidate is a  *)
(* prefix of the bytes it is matched on, and a package that parses holds   *)
(* at least its header.  Which bodies parse is the parsers' verdict.       *)
(***************************************************************************)
EXTENDS Integers, Sequences, FiniteSets, TLC

(***************************************************************************)
(* Bounds of the model                                                     *)
(***************************************************************************)
\* bytes of input beyond the two smallest packages of a dialect
MaxExtra == 1
\* longest opcode stream walked by the cross-referencer
MaxOps == 2
\* longest opcode stream formatted
MaxLines == 4
\* largest form_pkg.offset handed to a formatter
MaxFormOffset == 1

(***************************************************************************)
(* Program constants                                                       *)
(***************************************************************************)
\* UEFI HII package header: u24 length + u8 type (lib.rs:1341)
UefiHeaderSize == 4
\* Framework HII package header: u32 length + u16 type (lib.rs:336)
FrameworkHeaderSize == 6

Dialects == {"UEFI", "Framework"}

HeaderSize(d) == IF d = "UEFI" THEN UefiHeaderSize ELSE FrameworkHeaderSize

MaxDataLen(d) == 2 * HeaderSize(d) + MaxExtra

\* the string IDs that occur in the modelled opcode payloads
StringIds == {1, 2}

(***************************************************************************)
(* Parsed opcodes (IfrOperation of the parser modules)                     *)
(*   OpCode      the opcode enumerant                                      *)
(*   ScopeStart  bit 7 of the UEFI header (FALSE in Framework)             *)
(*   Length      on-wire length, 2-byte header included                    *)
(*   Data        "None" when the opcode has no payload, else "Some"        *)
(*   ok          whether the opcode's payload parser accepts Data          *)
(*   ids         the string-ID fields of the parsed payload, in the order  *)
(*               lib.rs pushes them                                        *)
(***************************************************************************)
Operation(opcode, scope, length, data, ok, ids) ==
    [OpCode |-> opcode, ScopeStart |-> scope, Length |-> length,
     Data |-> data, ok |-> ok, ids |-> ids]

\* UEFI opcodes whose payload carries string IDs and whose Data the locator unwraps
UefiUnwrapOpcodes ==
    {"Form", "Subtitle", "Text", "OneOf", "CheckBox", "Numeric", "Password",
     "OneOfOption", "Action", "ResetButton", "FormSet", "Ref", "NoSubmitIf",
     "InconsistentIf", "Date", "Time", "String", "OrderedList",
     "VarStoreDevice", "StringRef1", "Default", "DefaultStore", "FormMap",
     "Guid", "WarningIf"}

\* QuestionRef3 is the one opcode the locator guards with Data.is_some()
UefiStringOpcodes == UefiUnwrapOpcodes \cup {"QuestionRef3"}

FrameworkStringOpcodes ==
    {"Form", "Subtitle", "Text", "OneOf", "CheckBox", "Numeric", "Password",
     "OneOfOption", "FormSet", "Ref", "InconsistentIf", "Date", "Time",
     "String", "SaveDefaults", "RestoreDefaults", "Banner", "Inventory",
     "OrderedList"}

\* one scan iteration's view of a payload: the IDs one opcode contributes
UefiOperationIds(op) ==
    IF op.OpCode \in UefiStringOpcodes /\ op.Data = "Some" /\ op.ok
    THEN op.ids ELSE <<>>

FrameworkOperationIds(op) ==
    IF op.Data = "Some" /\ op.OpCode \in FrameworkStringOpcodes /\ op.ok
    THEN op.ids ELSE <<>>

\* operation.Data.unwrap() on an opcode without payload
UefiOperationPanics(op) ==
    op.OpCode \in UefiUnwrapOpcodes /\ op.Data = "None"

RECURSIVE UefiStringIds(_)
UefiStringIds(operations) ==
    IF operations = <<>> THEN <<>>
    ELSE UefiOperationIds(Head(operations)) \o UefiStringIds(Tail(operations))

RECURSIVE FrameworkStringIds(_)
FrameworkStringIds(operations) ==
    IF operations = <<>> THEN <<>>
    ELSE FrameworkOperationIds(Head(operations)) \o FrameworkStringIds(Tail(operations))

UefiWalkPanics(operations) ==
    \E k \in 1..Len(operations) : UefiOperationPanics(operations[k])

(***************************************************************************)
(* ids.sort(); ids.dedup()                                                 *)
(***************************************************************************)
RECURSIVE Insert(_, _)
Insert(x, s) ==
    IF s = <<>> THEN <<x>>
    ELSE IF x <= Head(s) THEN <<x>> \o s
    ELSE <<Head(s)>> \o Insert(x, Tail(s))

RECURSIVE SortIds(_)
SortIds(s) == IF s = <<>> THEN <<>> ELSE Insert(Head(s), SortIds(Tail(s)))

KeepAll(s) == s

\* Vec::dedup removes consecutive repeated elements only
RECURSIVE Dedup(_)
Dedup(s) ==
    IF Len(s) <= 1 THEN s
    ELSE IF s[1] = s[2] THEN Dedup(Tail(s))
    ELSE <<s[1]>> \o Dedup(Tail(s))


(***************************************************************************)
(* State of one call of a locator                                          *)
(***************************************************************************)
VARIABLES
    dialect,          \* which locator was called
    data_len,         \* data.len()
    pc,               \* "string_scan", "form_scan", "done" or "panicked"
    i,                \* the scan index
    string_packages,  \* string_packages / strings
    form_packages,    \* form_packages / forms
    parsed,           \* what the parsers returned in the last iteration
    result            \* the returned pair, once pc = "done"

locVars == <<dialect, data_len, pc, i, string_packages, form_packages, parsed, result>>

(***************************************************************************)
(* State of one call of a formatter                                        *)
(***************************************************************************)
VARIABLES
    mode,         \* which formatter was called
    buf_len,      \* data.len()
    form_offset,  \* form_pkg.offset
    verbose,      \* the verbose argument
    strings_map,  \* string_pkg.string_id_map
    fpc,          \* "call", "loop", "done" or "panicked"
    operations,   \* the opcodes ifr_operations returned
    op_index,     \* position of the for loop in operations
    scope_depth,  \* scope_depth
    offset,       \* offset
    text,         \* the lines written to text so far
    scope_log,    \* per opcode line: did it close a scope, did it open one
    form_parse,   \* what the parsers return on data[form_pkg.offset..]
    call,         \* 1 in the first call, 2 in a repeated call
    first_text,   \* the text the first call returned
    other_fields  \* the fields of form_pkg and string_pkg beside
                  \* form_pkg.offset and string_pkg.string_id_map

callVars == <<call, first_text, other_fields>>

extVars == <<mode, buf_len, form_offset, verbose, strings_map, fpc, operations,
             op_index, scope_depth, offset, text, scope_log, form_parse, callVars>>

(***************************************************************************)
(* State of the walk over the SIBT blocks of one UEFI string package       *)
(***************************************************************************)
VARIABLES
    overflow_checks,       \* does the build panic on integer overflow
    sibt_parse,            \* what hii_sibt_blocks returned on string_package.Data
    spc,                   \* "parse", "loop", "done" or "panicked"
    block_index,           \* position of the for loop in sibt_blocks
    string_id_map,         \* string_id_map
    current_string_index,  \* current_string_index
    pushed                 \* the maps strings.push received

sibtVars == <<overflow_checks, sibt_parse, spc, block_index, string_id_map,
              current_string_index, pushed>>

(***************************************************************************)
(* State of the decoding of one Framework string package                   *)
(***************************************************************************)
VARIABLES
    string_payload,    \* pkg.Data, by the pointers and strings it holds
    kpc,               \* "parsed" or "done"
    framework_pushed   \* the descriptors string_packages.push received

fwVars == <<string_payload, kpc, framework_pushed>>

(***************************************************************************)
(* State of the UEFI form walk at one Guid opcode                          *)
(***************************************************************************)
VARIABLES
    guid_operation,  \* the Guid opcode, by what the parsers return on it
    gpc,             \* "match", "done" or "panicked"
    guid_ids         \* what the Guid arm pushed to string_ids

guidVars == <<guid_operation, gpc, guid_ids>>

vars == <<locVars, extVars, sibtVars, fwVars, guidVars>>

\* a string_id_map without entries
NoStrings == [id \in {} |-> ""]

\* FormPackage without offset, StringPackage without string_id_map
OtherFields(len, used, min, max, str_offset, str_length, lang) ==
    [length |-> len, used_strings |-> used, min_string_id |-> min,
     max_string_id |-> max, string_offset |-> str_offset,
     string_length |-> str_length, language |-> lang]

\* the descriptors of a form package of 8 bytes with the string IDs 1 and 2
\* and of a string package of 16 bytes at offset 0
LocatedFields == OtherFields(8, 2, 1, 2, 0, 16, "en-US")

\* no formatter call is in progress
ExtractIdle ==
    /\ mode = "UEFI" /\ buf_len = 0 /\ form_offset = 0 /\ verbose = FALSE
    /\ strings_map = NoStrings
    /\ fpc = "idle" /\ operations = <<>> /\ op_index = 1
    /\ scope_depth = 0 /\ offset = 0 /\ text = <<>> /\ scope_log = <<>>
    /\ form_parse = [cand |-> -1, pkg |-> FALSE, Data |-> "None", body |-> FALSE,
                     table |-> FALSE, operations |-> <<>>]
    /\ call = 1 /\ first_text = <<>> /\ other_fields = LocatedFields

\* hii_sibt_blocks failed
NoBlocks == [ok |-> FALSE, blocks |-> <<>>]

\* no walk over SIBT blocks is in progress
SibtIdle ==
    /\ overflow_checks = FALSE /\ sibt_parse = NoBlocks /\ spc = "idle"
    /\ block_index = 1 /\ string_id_map = NoStrings
    /\ current_string_index = 0 /\ pushed = <<>>

\* the payload of a Framework string package without strings
NoFrameworkStrings ==
    [StringPointers |-> <<>>, LanguageNameStringOffset |-> 0, Strings |-> <<>>,
     more |-> 0]

\* no decoding of a Framework string package is in progress
FwIdle ==
    /\ string_payload = NoFrameworkStrings /\ kpc = "idle" /\ framework_pushed = <<>>

\* a Guid opcode without payload
NoGuidData ==
    [Data |-> "None", guid_ok |-> FALSE, Guid |-> "other", ext_ok |-> FALSE,
     ExtendedOpCode |-> "Unknown", ExtData |-> <<>>, banner_ok |-> FALSE,
     TitleId |-> 0]

\* the form walk is at no Guid opcode
GuidIdle ==
    /\ guid_operation = NoGuidData /\ gpc = "idle" /\ guid_ids = <<>>

(***************************************************************************)
(* Package descriptors (struct StringPackage, struct FormPackage).         *)
(* language and string_id_map of a string package are built by the string  *)
(* table decoder and take no part in the scan.                             *)
(***************************************************************************)
StringPackageEnd(at, length) == [offset |-> at, length |-> at + length]

StringPackage(at, length) == [offset |-> at, length |-> length]

FormPackageShortCount(at, length, ids) ==
    [offset |-> at, length |-> length, used_strings |-> Len(ids) - 1,
     min_string_id |-> ids[1], max_string_id |-> ids[Len(ids)]]

\* ids is the sorted, deduplicated and non-empty ID vector
FormPackage(at, length, ids) ==
    [offset |-> at, length |-> length, used_strings |-> Len(ids),
     min_string_id |-> ids[1], max_string_id |-> ids[Len(ids)]]

PushFront(list, x) == <<x>> \o list

\* Vec::push
Push(list, x) == Append(list, x)

AdvanceOne(i_, cand) == i_ + 1

\* i += candidate.len()
AdvancePast(i_, cand) == i_ + cand

NeverEmpty(list) == FALSE

\* Vec::is_empty, the test that makes a locator return (empty, empty)
NoPackages(list) == list = <<>>

(***************************************************************************)
(* What the parsers return on data[i..], rem = data.len() - i bytes:       *)
(*   cand        candidate.len(), or -1 when no candidate is matched; a    *)
(*               candidate is a prefix of the bytes it was matched on      *)
(*   pkg         hii_package(candidate) is Ok; its header takes            *)
(*               HeaderSize bytes, so a shorter candidate is Truncated     *)
(*   Data        the package body                                          *)
(*   body        hii_string_package(Data) / ifr_operations(Data) is Ok     *)
(*   table       hii_sibt_blocks is Ok (UEFI string packages)              *)
(*   operations  the opcodes ifr_operations returns                        *)
(***************************************************************************)
Parse(cand, pkg, data, body, table, ops) ==
    [cand |-> cand, pkg |-> pkg, Data |-> data, body |-> body,
     table |-> table, operations |-> ops]

NoCandidate == Parse(-1, FALSE, "None", FALSE, FALSE, <<>>)

\* a parsed package has a body slice (spec.md 3)
PackageData == {"Some"}

StringParses(d, rem) ==
    {NoCandidate}
    \cup {Parse(c, FALSE, "None", FALSE, FALSE, <<>>) : c \in 0..rem}
    \cup {Parse(c, TRUE, pd, FALSE, FALSE, <<>>) :
            c \in HeaderSize(d)..rem, pd \in PackageData}
    \cup {Parse(c, TRUE, pd, TRUE, t, <<>>) :
            c \in HeaderSize(d)..rem, pd \in PackageData,
            t \in IF d = "UEFI" THEN BOOLEAN ELSE {TRUE}}

\* the opcode streams a scanned form package is made of
UefiScanOperationLists ==
    { <<>>,
      << Operation("End", FALSE, 2, "None", FALSE, <<>>) >>,
      << Operation("Form", FALSE, 6, "Some", TRUE, <<1>>) >>,
      << Operation("Form", FALSE, 3, "Some", FALSE, <<>>) >>,
      << Operation("Form", FALSE, 2, "None", FALSE, <<>>) >>,
      << Operation("Subtitle", FALSE, 7, "Some", TRUE, <<2, 1>>) >>,
      << Operation("Form", FALSE, 6, "Some", TRUE, <<2>>),
         Operation("Subtitle", FALSE, 7, "Some", TRUE, <<2, 2>>),
         Operation("End", FALSE, 2, "None", FALSE, <<>>) >> }

FrameworkScanOperationLists ==
    { <<>>,
      << Operation("EndForm", FALSE, 2, "None", FALSE, <<>>) >>,
      << Operation("Form", FALSE, 6, "Some", TRUE, <<1>>) >>,
      << Operation("Form", FALSE, 3, "Some", FALSE, <<>>) >>,
      << Operation("Form", FALSE, 2, "None", FALSE, <<>>) >>,
      << Operation("FormSet", FALSE, 6, "Some", TRUE, <<2, 1>>) >>,
      << Operation("Form", FALSE, 6, "Some", TRUE, <<2>>),
         Operation("FormSet", FALSE, 6, "Some", TRUE, <<2, 2>>),
         Operation("EndForm", FALSE, 2, "None", FALSE, <<>>) >> }

\* the opcodes the cross-referencer is walked over
UefiWalkOperations ==
    {Operation("Form", FALSE, 6, "Some", TRUE, <<a>>) : a \in StringIds}
    \cup {Operation("Subtitle", FALSE, 7, "Some", TRUE, <<a, b>>) :
             a \in StringIds, b \in StringIds}
    \cup {Operation("Form", FALSE, 3, "Some", FALSE, <<>>),
          Operation("Form", FALSE, 2, "None", FALSE, <<>>),
          Operation("End", FALSE, 2, "None", FALSE, <<>>),
          Operation("QuestionRef3", FALSE, 2, "None", FALSE, <<>>),
          Operation("QuestionRef3", FALSE, 4, "Some", TRUE, <<1>>)}

FrameworkWalkOperations ==
    {Operation("Form", FALSE, 6, "Some", TRUE, <<a>>) : a \in StringIds}
    \cup {Operation("FormSet", FALSE, 6, "Some", TRUE, <<a, b>>) :
             a \in StringIds, b \in StringIds}
    \cup {Operation("Form", FALSE, 3, "Some", FALSE, <<>>),
          Operation("Form", FALSE, 2, "None", FALSE, <<>>),
          Operation("EndForm", FALSE, 2, "None", FALSE, <<>>)}

UefiWalkOperationLists ==
    UNION {[1..n -> UefiWalkOperations] : n \in 0..MaxOps}

FrameworkWalkOperationLists ==
    UNION {[1..n -> FrameworkWalkOperations] : n \in 0..MaxOps}

FormParsesOver(d, rem, lists) ==
    {NoCandidate}
    \cup {Parse(c, FALSE, "None", FALSE, FALSE, <<>>) : c \in 0..rem}
    \cup {Parse(c, TRUE, pd, FALSE, FALSE, <<>>) :
            c \in HeaderSize(d)..rem, pd \in PackageData}
    \cup {Parse(c, TRUE, pd, TRUE, TRUE, ops) :
            c \in HeaderSize(d)..rem, pd \in PackageData, ops \in lists}

\* the string and the form package type differ, so the bytes of a recorded
\* string package are no form-package candidate
StringPackageAt(at) ==
    \E k \in 1..Len(string_packages) : string_packages[k].offset = at

FormParses(d, at, lists) ==
    IF StringPackageAt(at) THEN {NoCandidate}
    ELSE FormParsesOver(d, data_len - at, lists)

NoResult == [strings |-> <<>>, forms |-> <<>>]

LocInit ==
    /\ dialect \in Dialects
    /\ data_len \in 0..MaxDataLen(dialect)
    /\ pc = "string_scan"
    /\ i = 0
    /\ string_packages = <<>>
    /\ form_packages = <<>>
    /\ parsed = NoCandidate
    /\ result = NoResult
    /\ ExtractIdle
    /\ SibtIdle
    /\ FwIdle
    /\ GuidIdle

Panic ==
    /\ pc' = "panicked"
    /\ UNCHANGED <<i, string_packages, form_packages, result>>

\* framework_find_string_and_form_packages, one iteration of the first loop
FrameworkStringScan ==
    /\ dialect = "Framework" /\ pc = "string_scan" /\ i < data_len
    /\ \E p \in StringParses(dialect, data_len - i) :
        /\ parsed' = p
        /\ IF p.cand >= 0 /\ p.pkg /\ p.Data = "Some" /\ p.body
           THEN /\ string_packages' = Push(string_packages, StringPackage(i, p.cand))
                /\ i' = AdvancePast(i, p.cand)
           ELSE /\ i' = i + 1
                /\ UNCHANGED string_packages
    /\ UNCHANGED <<dialect, data_len, pc, form_packages, result>>
    /\ UNCHANGED <<extVars, sibtVars, fwVars, guidVars>>

\* the loop is left: return the empty pair or start the form scan
AfterLastString(list) == list[Len(list)].offset + list[Len(list)].length

\* i = 0 before the second loop, whatever the first loop recorded
FormScanStart(list) == 0

FrameworkStringScanEnd ==
    /\ dialect = "Framework" /\ pc = "string_scan" /\ ~(i < data_len)
    /\ IF NoPackages(string_packages)
       THEN pc' = "done" /\ result' = NoResult /\ UNCHANGED <<i, parsed>>
       ELSE /\ pc' = "form_scan" /\ i' = FormScanStart(string_packages)
            /\ parsed' = NoCandidate /\ UNCHANGED result
    /\ UNCHANGED <<dialect, data_len, string_packages, form_packages>>
    /\ UNCHANGED <<extVars, sibtVars, fwVars, guidVars>>

\* framework_find_string_and_form_packages, one iteration of the second loop
FrameworkFormScanOver(lists) ==
    /\ dialect = "Framework" /\ pc = "form_scan" /\ i < data_len
    /\ \E p \in FormParses(dialect, i, lists) :
        /\ parsed' = p
        /\ IF p.cand >= 0 /\ p.pkg /\ p.Data = "Some" /\ p.body
           THEN LET ids == Dedup(SortIds(FrameworkStringIds(p.operations)))
                IN  /\ form_packages' =
                          IF ids # <<>>
                          THEN Push(form_packages, FormPackage(i, p.cand, ids))
                          ELSE form_packages
                    /\ i' = AdvancePast(i, p.cand)
           ELSE /\ i' = i + 1
                /\ UNCHANGED form_packages
    /\ UNCHANGED <<dialect, data_len, pc, string_packages, result>>
    /\ UNCHANGED <<extVars, sibtVars, fwVars, guidVars>>

FrameworkFormScan == FrameworkFormScanOver(FrameworkScanOperationLists)

\* the same iteration over every opcode stream of up to MaxOps opcodes
FrameworkFormWalk == FrameworkFormScanOver(FrameworkWalkOperationLists)

FrameworkFormScanEnd ==
    /\ dialect = "Framework" /\ pc = "form_scan" /\ ~(i < data_len)
    /\ pc' = "done"
    /\ result' = IF NoPackages(form_packages) THEN NoResult
                 ELSE [strings |-> string_packages, forms |-> form_packages]
    /\ UNCHANGED <<dialect, data_len, i, string_packages, form_packages, parsed>>
    /\ UNCHANGED <<extVars, sibtVars, fwVars, guidVars>>

\* uefi_find_string_and_form_packages, one iteration of the first loop.
\* The walk over the SIBT blocks that fills string_id_map (lines 668-779,
\* with its own block.Data.unwrap() calls) is not modelled here.
UefiStringScan ==
    /\ dialect = "UEFI" /\ pc = "string_scan" /\ i < data_len
    /\ \E p \in StringParses(dialect, data_len - i) :
        /\ parsed' = p
        /\ IF p.cand >= 0 /\ p.pkg
           THEN IF p.Data = "None"
                THEN Panic
                ELSE IF p.body
                     THEN /\ string_packages' =
                                IF p.table
                                THEN Push(string_packages, StringPackage(i, p.cand))
                                ELSE string_packages
                          /\ i' = AdvancePast(i, p.cand)
                          /\ UNCHANGED <<pc, form_packages, result>>
                     ELSE /\ i' = i + 1
                          /\ UNCHANGED <<pc, string_packages, form_packages, result>>
           ELSE /\ i' = i + 1
                /\ UNCHANGED <<pc, string_packages, form_packages, result>>
    /\ UNCHANGED <<dialect, data_len>>
    /\ UNCHANGED <<extVars, sibtVars, fwVars, guidVars>>

UefiStringScanEnd ==
    /\ dialect = "UEFI" /\ pc = "string_scan" /\ ~(i < data_len)
    /\ IF NoPackages(string_packages)
       THEN pc' = "done" /\ result' = NoResult /\ UNCHANGED <<i, parsed>>
       ELSE /\ pc' = "form_scan" /\ i' = FormScanStart(string_packages)
            /\ parsed' = NoCandidate /\ UNCHANGED result
    /\ UNCHANGED <<dialect, data_len, string_packages, form_packages>>
    /\ UNCHANGED <<extVars, sibtVars, fwVars, guidVars>>

\* uefi_find_string_and_form_packages, one iteration of the second loop
UefiFormScanOver(lists) ==
    /\ dialect = "UEFI" /\ pc = "form_scan" /\ i < data_len
    /\ \E p \in FormParses(dialect, i, lists) :
        /\ parsed' = p
        /\ IF p.cand >= 0 /\ p.pkg
           THEN IF p.Data = "None" \/ (p.body /\ UefiWalkPanics(p.operations))
                THEN Panic
                ELSE LET string_ids ==
                             IF p.body
                             THEN Dedup(SortIds(UefiStringIds(p.operations)))
                             ELSE <<>>
                     IN  /\ form_packages' =
                               IF string_ids # <<>>
                               THEN Push(form_packages, FormPackage(i, p.cand, string_ids))
                               ELSE form_packages
                         /\ i' = AdvancePast(i, p.cand)
                         /\ UNCHANGED <<pc, string_packages, result>>
           ELSE /\ i' = i + 1
                /\ UNCHANGED <<pc, string_packages, form_packages, result>>
    /\ UNCHANGED <<dialect, data_len>>
    /\ UNCHANGED <<extVars, sibtVars, fwVars, guidVars>>

UefiFormScan == UefiFormScanOver(UefiScanOperationLists)

UefiFormWalk == UefiFormScanOver(UefiWalkOperationLists)

UefiFormScanEnd ==
    /\ dialect = "UEFI" /\ pc = "form_scan" /\ ~(i < data_len)
    /\ pc' = "done"
    /\ result' = IF NoPackages(form_packages) THEN NoResult
                 ELSE [strings |-> string_packages, forms |-> form_packages]
    /\ UNCHANGED <<dialect, data_len, i, string_packages, form_packages, parsed>>
    /\ UNCHANGED <<extVars, sibtVars, fwVars, guidVars>>

LocNext ==
    \/ FrameworkStringScan
    \/ FrameworkStringScanEnd
    \/ FrameworkFormScan
    \/ FrameworkFormScanEnd
    \/ UefiStringScan
    \/ UefiStringScanEnd
    \/ UefiFormScan
    \/ UefiFormScanEnd

Spec == LocInit /\ [][LocNext]_vars

(***************************************************************************)
(* The cross-referencer on its own: the form scan of a buffer that holds   *)
(* one string package, over every opcode stream of up to MaxOps opcodes.   *)
(***************************************************************************)
WalkInit ==
    /\ dialect \in Dialects
    /\ data_len = HeaderSize(dialect) + 1 + MaxExtra
    /\ pc = "form_scan"
    /\ i = 0
    /\ string_packages = <<StringPackage(0, data_len)>>
    /\ form_packages = <<>>
    /\ parsed = NoCandidate
    /\ result = NoResult
    /\ ExtractIdle
    /\ SibtIdle
    /\ FwIdle
    /\ GuidIdle

WalkNext ==
    \/ FrameworkFormWalk
    \/ FrameworkFormScanEnd
    \/ UefiFormWalk
    \/ UefiFormScanEnd

SpecWalk == WalkInit /\ [][WalkNext]_vars

(***************************************************************************)
(* The formatters uefi_ifr_extract_to_string and                           *)
(* framework_ifr_extract_to_string, one step per statement group: the      *)
(* call up to the for loop, one loop iteration, the return.                *)
(*                                                                         *)
(* A line of text is a record                                              *)
(*   prefix   the offset printed by "0x{:X}: ", -1 when not verbose        *)
(*   indent   the width the opcode name is indented by                     *)
(*   OpCode   the opcode name                                              *)
(*   payload  "fields" when a payload arm wrote its fields, "RawData" for  *)
(*            the Unknown arm, "none" when nothing follows the name        *)
(*   strings  the quoted strings among the fields, in the order written    *)
(* and the preamble is line 1.                                             *)
(***************************************************************************)
Line(prefix, indent, opcode, payload, strings) ==
    [prefix |-> prefix, indent |-> indent, OpCode |-> opcode,
     payload |-> payload, strings |-> strings]

PreambleOfOtherMode(m) ==
    Line(-1, 0, "Preamble", IF m = "UEFI" THEN "Framework" ELSE "UEFI", <<>>)

Preamble(m) == Line(-1, 0, "Preamble", m, <<>>)

\* the match arms of the UEFI formatter that write payload fields
UefiFormattedOpcodes == {"Form", "Subtitle", "Text", "Image", "OneOf", "CheckBox"}

\* the match arms of the Framework formatter that write nothing
FrameworkSilentOpcodes ==
    {"Graphic", "EndForm", "EndFormSet", "End", "And", "Or", "Not", "EndIf",
     "True", "False", "Greater", "GreaterEqual", "OemDefined", "Oem",
     "NvAccessCommand"}

PayloadUnchecked(op) == "fields"

UefiPayload(op) ==
    IF op.Data = "Some" /\ op.OpCode \in UefiFormattedOpcodes /\ op.ok
    THEN "fields" ELSE "none"

FrameworkPayload(op) ==
    IF op.Data # "Some" THEN "none"
    ELSE IF op.OpCode = "Unknown" THEN "RawData"
    ELSE IF op.OpCode \in FrameworkSilentOpcodes THEN "none"
    ELSE IF op.ok THEN "fields" ELSE "none"

CloseUnguarded(op, depth) ==
    IF op.OpCode = "End" THEN depth - 1 ELSE depth

\* if op.OpCode == End && scope_depth > 0 { scope_depth -= 1 }
UefiCloseScope(op, depth) ==
    IF op.OpCode = "End" /\ depth > 0 THEN depth - 1 ELSE depth

\* if matches!(op.OpCode, EndFormSet | EndForm) { saturating_sub(1) }
FrameworkCloseScope(op, depth) ==
    IF op.OpCode \in {"EndFormSet", "EndForm"}
    THEN IF depth > 0 THEN depth - 1 ELSE 0
    ELSE depth

\* if op.ScopeStart { scope_depth += 1 }
UefiOpenScope(op, depth) == IF op.ScopeStart THEN depth + 1 ELSE depth

OpenUnparsed(op, depth) ==
    IF op.OpCode \in {"Form", "FormSet"} THEN depth + 1 ELSE depth

\* scope_depth += 1 at the end of the Form and FormSet arms
FrameworkOpenScope(op, depth) ==
    IF op.Data = "Some" /\ op.OpCode \in {"Form", "FormSet"} /\ op.ok
    THEN depth + 1 ELSE depth

ResolveWithinRange(map, id) ==
    IF id \in DOMAIN map /\ id >= other_fields.min_string_id
       /\ id <= other_fields.max_string_id
    THEN map[id] ELSE "InvalidId"

ResolveOrDefault(map, id) == IF id \in DOMAIN map THEN map[id] ELSE ""

\* strings_map.get(&id).unwrap_or(&"InvalidId".into())
Resolve(map, id) == IF id \in DOMAIN map THEN map[id] ELSE "InvalidId"

\* the string operands a payload arm writes, resolved
UefiStrings(op, map) ==
    IF UefiPayload(op) = "fields"
    THEN [k \in 1..Len(op.ids) |-> Resolve(map, op.ids[k])] ELSE <<>>

FrameworkStrings(op, map) ==
    IF FrameworkPayload(op) = "fields"
    THEN [k \in 1..Len(op.ids) |-> Resolve(map, op.ids[k])] ELSE <<>>

\* the string tables a caller passes
StringIdMaps ==
    { NoStrings,
      (0 :> "" @@ 1 :> "Title"),
      (0 :> "" @@ 1 :> "Title" @@ 2 :> "Help") }

OffsetPlusPayload(off, op) == off + op.Length - 2

\* offset += op.Length as usize
NextOffset(off, op) == off + op.Length

IndentBeforeClose(before, closed) == before

IndentUnlessVerbose(before, closed) == IF verbose THEN 0 ELSE closed

\* width = scope_depth, read after the end opcodes have decreased it
LineIndent(before, closed) == closed

\* the opcodes of a formatted form package
UefiExtractOperations ==
    { Operation("FormSet", TRUE, 6, "Some", TRUE, <<1, 2>>),
      Operation("Form", TRUE, 6, "Some", TRUE, <<1>>),
      Operation("Form", TRUE, 3, "Some", FALSE, <<>>),
      Operation("Text", FALSE, 8, "Some", TRUE, <<1, 2, 1>>),
      Operation("Unknown", FALSE, 3, "Some", FALSE, <<>>),
      Operation("End", FALSE, 2, "None", FALSE, <<>>) }

FrameworkExtractOperations ==
    { Operation("FormSet", FALSE, 6, "Some", TRUE, <<1, 2>>),
      Operation("Form", FALSE, 6, "Some", TRUE, <<1>>),
      Operation("Form", FALSE, 3, "Some", FALSE, <<>>),
      Operation("Unknown", FALSE, 3, "Some", FALSE, <<>>),
      Operation("EndForm", FALSE, 2, "None", FALSE, <<>>),
      Operation("EndFormSet", FALSE, 2, "None", FALSE, <<>>) }

UefiExtractOperationLists ==
    UNION {[1..n -> UefiExtractOperations] : n \in 0..MaxLines}

FrameworkExtractOperationLists ==
    UNION {[1..n -> FrameworkExtractOperations] : n \in 0..MaxLines}

\* no locator call is in progress
LocIdle ==
    /\ dialect = "UEFI" /\ data_len = 0 /\ pc = "idle" /\ i = 0
    /\ string_packages = <<>> /\ form_packages = <<>>
    /\ parsed = NoCandidate /\ result = NoResult

\* the caller's arguments: an empty buffer or one that holds a package
\* header at the descriptor offset, any descriptor offset, any string table
ExtractInit ==
    /\ mode \in Dialects
    /\ form_offset \in 0..MaxFormOffset
    /\ buf_len \in {0, form_offset + HeaderSize(mode)}
    /\ verbose \in BOOLEAN
    /\ strings_map \in StringIdMaps
    /\ fpc = "call"
    /\ operations = <<>>
    /\ op_index = 1
    /\ scope_depth = 0
    /\ offset = 0
    /\ text = <<>>
    /\ scope_log = <<>>
    /\ form_parse = NoCandidate
    /\ call = 1
    /\ first_text = <<>>
    /\ other_fields = LocatedFields
    /\ LocIdle
    /\ SibtIdle
    /\ FwIdle
    /\ GuidIdle

\* &data[form_pkg.offset..] with form_pkg.offset > data.len(), or
\* package.Data.unwrap() on a package without body
ExtractPanic ==
    /\ fpc' = "panicked"
    /\ UNCHANGED <<operations, op_index, scope_depth, offset, text, scope_log,
                   form_parse>>

KeptDepth(stale) == stale

\* let mut scope_depth = 0usize
FreshDepth(stale) == 0

\* the parsers are functions of the bytes: a repeated call on the same
\* buffer and descriptor gets what the first call got
FormParseResults(lists) ==
    IF call = 1 THEN FormParsesOver(mode, buf_len - form_offset, lists)
    ELSE {form_parse}

\* the call up to the for loop; text is returned at once when a parser fails
ExtractBegin(lists) ==
    /\ fpc = "call"
    /\ IF form_offset > buf_len
       THEN ExtractPanic
       ELSE \E p \in FormParseResults(lists) :
              IF p.cand >= 0 /\ p.pkg
              THEN IF p.Data = "None"
                   THEN ExtractPanic
                   ELSE /\ form_parse' = p
                        /\ text' = <<Preamble(mode)>>
                        /\ operations' = p.operations
                        /\ op_index' = 1
                        /\ scope_log' = <<>>
                        /\ fpc' = IF p.body THEN "loop" ELSE "done"
                        /\ scope_depth' = IF p.body THEN FreshDepth(scope_depth)
                                          ELSE scope_depth
                        /\ offset' = IF p.body THEN form_offset + HeaderSize(mode)
                                     ELSE offset
              ELSE /\ form_parse' = p
                   /\ text' = <<Preamble(mode)>>
                   /\ operations' = <<>>
                   /\ op_index' = 1
                   /\ scope_log' = <<>>
                   /\ fpc' = "done"
                   /\ UNCHANGED <<scope_depth, offset>>
    /\ UNCHANGED <<mode, buf_len, form_offset, verbose, strings_map, callVars>>
    /\ UNCHANGED <<locVars, sibtVars, fwVars, guidVars>>

UefiExtractBegin == mode = "UEFI" /\ ExtractBegin(UefiExtractOperationLists)

FrameworkExtractBegin ==
    mode = "Framework" /\ ExtractBegin(FrameworkExtractOperationLists)

\* one iteration of for op in &operations
UefiExtractOperation ==
    /\ mode = "UEFI" /\ fpc = "loop" /\ op_index <= Len(operations)
    /\ LET op == operations[op_index]
           closed == UefiCloseScope(op, scope_depth)
           opened == UefiOpenScope(op, closed)
       IN  /\ text' = Append(text, Line(IF verbose THEN offset ELSE -1,
                                        LineIndent(scope_depth, closed),
                                        op.OpCode, UefiPayload(op),
                                        UefiStrings(op, strings_map)))
           /\ scope_depth' = opened
           /\ scope_log' = Append(scope_log, [closed |-> closed # scope_depth,
                                              opened |-> opened # closed])
           /\ offset' = NextOffset(offset, op)
    /\ op_index' = op_index + 1
    /\ UNCHANGED <<mode, buf_len, form_offset, verbose, strings_map, fpc, operations,
                   form_parse, callVars>>
    /\ UNCHANGED <<locVars, sibtVars, fwVars, guidVars>>

FrameworkExtractOperation ==
    /\ mode = "Framework" /\ fpc = "loop" /\ op_index <= Len(operations)
    /\ LET op == operations[op_index]
           closed == FrameworkCloseScope(op, scope_depth)
           opened == FrameworkOpenScope(op, closed)
       IN  /\ text' = Append(text, Line(IF verbose THEN offset ELSE -1,
                                        LineIndent(scope_depth, closed),
                                        op.OpCode, FrameworkPayload(op),
                                        FrameworkStrings(op, strings_map)))
           /\ scope_depth' = opened
           /\ scope_log' = Append(scope_log, [closed |-> closed # scope_depth,
                                              opened |-> opened # closed])
           /\ offset' = NextOffset(offset, op)
    /\ op_index' = op_index + 1
    /\ UNCHANGED <<mode, buf_len, form_offset, verbose, strings_map, fpc, operations,
                   form_parse, callVars>>
    /\ UNCHANGED <<locVars, sibtVars, fwVars, guidVars>>

\* String::from_utf8(text).unwrap_or_default()
ExtractReturn ==
    /\ fpc = "loop" /\ op_index > Len(operations)
    /\ fpc' = "done"
    /\ UNCHANGED <<mode, buf_len, form_offset, verbose, strings_map, operations,
                   op_index, scope_depth, offset, text, scope_log, form_parse,
                   callVars>>
    /\ UNCHANGED <<locVars, sibtVars, fwVars, guidVars>>

ExtractNext ==
    \/ UefiExtractBegin
    \/ UefiExtractOperation
    \/ FrameworkExtractBegin
    \/ FrameworkExtractOperation
    \/ ExtractReturn

SpecExtract == ExtractInit /\ [][ExtractNext]_vars

(***************************************************************************)
(* A formatter called twice with the same buffer, descriptor, string table *)
(* and verbose flag.  Nothing of the first call is handed to the second:   *)
(* its locals are left as they were and the second call starts on them.    *)
(***************************************************************************)
TwiceInit ==
    /\ ExtractInit
    /\ strings_map = (0 :> "" @@ 1 :> "Title")

ExtractAgain ==
    /\ fpc = "done" /\ call = 1
    /\ call' = 2
    /\ first_text' = text
    /\ fpc' = "call"
    /\ UNCHANGED <<mode, buf_len, form_offset, verbose, strings_map, operations,
                   op_index, scope_depth, offset, text, scope_log, form_parse,
                   other_fields>>
    /\ UNCHANGED <<locVars, sibtVars, fwVars, guidVars>>

TwiceNext ==
    \/ UefiExtractBegin
    \/ UefiExtractOperation
    \/ FrameworkExtractBegin
    \/ FrameworkExtractOperation
    \/ ExtractReturn
    \/ ExtractAgain

SpecTwice == TwiceInit /\ [][TwiceNext]_vars

(***************************************************************************)
(* A formatter called twice with the same buffer, descriptors and string   *)
(* table, the second time with the other value of verbose.                 *)
(***************************************************************************)
ExtractAgainOtherVerbose ==
    /\ fpc = "done" /\ call = 1
    /\ call' = 2
    /\ first_text' = text
    /\ verbose' = ~verbose
    /\ fpc' = "call"
    /\ UNCHANGED <<mode, buf_len, form_offset, strings_map, operations,
                   op_index, scope_depth, offset, text, scope_log, form_parse,
                   other_fields>>
    /\ UNCHANGED <<locVars, sibtVars, fwVars, guidVars>>

VerboseNext ==
    \/ UefiExtractBegin
    \/ UefiExtractOperation
    \/ FrameworkExtractBegin
    \/ FrameworkExtractOperation
    \/ ExtractReturn
    \/ ExtractAgainOtherVerbose

SpecVerbose == TwiceInit /\ [][VerboseNext]_vars

(***************************************************************************)
(* A formatter called twice with the same buffer, form_pkg.offset, string  *)
(* table and verbose flag, the second time with other values in the other  *)
(* fields of the two descriptors.                                          *)
(***************************************************************************)
\* other values of the form_pkg fields, of the string_pkg fields, of both
ChangedFields ==
    {OtherFields(9, 1, 2, 2, 0, 16, "en-US"),
     OtherFields(8, 2, 1, 2, 4, 20, "fr-FR"),
     OtherFields(9, 1, 2, 2, 4, 20, "fr-FR")}

ExtractAgainOtherFields ==
    /\ fpc = "done" /\ call = 1
    /\ call' = 2
    /\ first_text' = text
    /\ other_fields' \in ChangedFields
    /\ fpc' = "call"
    /\ UNCHANGED <<mode, buf_len, form_offset, verbose, strings_map, operations,
                   op_index, scope_depth, offset, text, scope_log, form_parse>>
    /\ UNCHANGED <<locVars, sibtVars, fwVars, guidVars>>

FieldsNext ==
    \/ UefiExtractBegin
    \/ UefiExtractOperation
    \/ FrameworkExtractBegin
    \/ FrameworkExtractOperation
    \/ ExtractReturn
    \/ ExtractAgainOtherFields

SpecFields == TwiceInit /\ [][FieldsNext]_vars

(***************************************************************************)
(* uefi_find_string_and_form_packages, the walk over the SIBT blocks of    *)
(* one string package that fills string_id_map.  hii_sibt_blocks and the   *)
(* sibt_string* parsers are library code: what they return is an input.    *)
(***************************************************************************)
\* the longest block stream
MaxBlocks == 3

\* the number of values of a u16, the type of current_string_index
IdCount == 65536

SingleStringTypes == {"StringScsu", "StringScsuFont", "StringUcs2", "StringUcs2Font"}

MultiStringTypes == {"StringsScsu", "StringsScsuFont", "StringsUcs2", "StringsUcs2Font"}

\* a block as hii_sibt_blocks returns it, with what the parser of its payload
\* returns: ok and the decoded strings; count is the payload bytes of a skip
\* block
SibtBlock(type, data, ok, strs, count) ==
    [Type |-> type, Data |-> data, ok |-> ok, strings |-> strs, count |-> count]

SibtBlocks ==
    {SibtBlock("End", "None", FALSE, <<>>, <<>>),
     SibtBlock("StringScsu", "Some", TRUE, <<"A">>, <<>>),
     SibtBlock("StringScsu", "None", FALSE, <<>>, <<>>),
     SibtBlock("StringScsuFont", "Some", TRUE, <<"B">>, <<>>),
     SibtBlock("StringUcs2", "Some", TRUE, <<"C">>, <<>>),
     SibtBlock("StringUcs2", "Some", FALSE, <<>>, <<>>),
     SibtBlock("StringUcs2Font", "Some", TRUE, <<"D">>, <<>>),
     SibtBlock("StringsScsu", "Some", TRUE, <<"A", "B">>, <<>>),
     SibtBlock("StringsScsuFont", "Some", TRUE, <<"B">>, <<>>),
     SibtBlock("StringsUcs2", "Some", TRUE, <<>>, <<>>),
     SibtBlock("StringsUcs2Font", "Some", TRUE, <<"D", "C">>, <<>>),
     SibtBlock("Duplicate", "Some", FALSE, <<>>, <<>>),
     SibtBlock("Skip2", "Some", FALSE, <<>>, <<255, 255>>),
     SibtBlock("Skip2", "Some", FALSE, <<>>, <<2, 1>>),
     SibtBlock("Skip1", "Some", FALSE, <<>>, <<2>>),
     SibtBlock("Ext1", "Some", FALSE, <<>>, <<>>),
     SibtBlock("Ext2", "Some", FALSE, <<>>, <<>>),
     SibtBlock("Ext4", "Some", FALSE, <<>>, <<>>),
     SibtBlock("Unknown", "Some", FALSE, <<>>, <<>>)}

SibtBlockLists == UNION {[1..n -> SibtBlocks] : n \in 0..MaxBlocks}

\* the results of hii_sibt_blocks: an error, or a list of blocks
SibtParses == {NoBlocks} \cup {[ok |-> TRUE, blocks |-> l] : l \in SibtBlockLists}

ReservedNothing == [id \in {} |-> ""]

\* string_id_map.insert(0_u16, String::new())
ReservedIds == (0 :> "")

\* HashMap::insert: a later insertion at a key replaces the earlier one
MapInsert(map, id, string) == (id :> string) @@ map

AdvanceSingle(cur, n) == (cur + 1) % IdCount

\* current_string_index += n, in a build that does not check for overflow
Advance(cur, n) == (cur + n) % IdCount

\* does adding n to current_string_index, at once or one by one, overflow
Overflows(cur, n) == cur + n >= IdCount

\* for string in strings { insert(current_string_index, string); += 1 }
RECURSIVE InsertAll(_, _, _)
InsertAll(map, cur, strs) ==
    IF strs = <<>> THEN map
    ELSE InsertAll(MapInsert(map, cur, Head(strs)), Advance(cur, 1), Tail(strs))

SibtInit ==
    /\ overflow_checks \in BOOLEAN
    /\ sibt_parse \in SibtParses
    /\ spc = "parse"
    /\ block_index = 1
    /\ string_id_map = NoStrings
    /\ current_string_index = 0
    /\ pushed = <<>>
    /\ LocIdle
    /\ ExtractIdle
    /\ FwIdle
    /\ GuidIdle

\* block.Data.unwrap() on None, or an overflow of current_string_index in a
\* build with overflow checks
SibtPanic ==
    /\ spc' = "panicked"
    /\ UNCHANGED <<block_index, string_id_map, current_string_index, pushed>>

\* if let Ok((_, sibt_blocks)) = hii_sibt_blocks(string_package.Data):
\* without blocks nothing is pushed
SibtParse ==
    /\ spc = "parse"
    /\ IF sibt_parse.ok
       THEN /\ string_id_map' = ReservedIds
            /\ current_string_index' = 1
            /\ spc' = "loop"
       ELSE /\ spc' = "done"
            /\ UNCHANGED <<string_id_map, current_string_index>>
    /\ UNCHANGED <<overflow_checks, sibt_parse, block_index, pushed>>
    /\ UNCHANGED <<locVars, extVars, fwVars, guidVars>>

\* the end of one iteration of the for loop: the map as the block left it,
\* the counter n further
SibtAdvance(map, n) ==
    IF overflow_checks /\ Overflows(current_string_index, n)
    THEN SibtPanic
    ELSE /\ string_id_map' = map
         /\ current_string_index' = Advance(current_string_index, n)
         /\ block_index' = block_index + 1
         /\ UNCHANGED <<spc, pushed>>

\* is the for loop at a block of one of these types
AtBlock(types) ==
    /\ spc = "loop" /\ block_index <= Len(sibt_parse.blocks)
    /\ sibt_parse.blocks[block_index].Type \in types

\* StringScsu, StringScsuFont, StringUcs2, StringUcs2Font
SibtString ==
    /\ AtBlock(SingleStringTypes)
    /\ LET block == sibt_parse.blocks[block_index]
       IN  IF block.Data = "None" THEN SibtPanic
           ELSE IF block.ok
                THEN SibtAdvance(MapInsert(string_id_map, current_string_index,
                                        block.strings[1]), 1)
                ELSE SibtAdvance(string_id_map, 0)
    /\ UNCHANGED <<overflow_checks, sibt_parse>>
    /\ UNCHANGED <<locVars, extVars, fwVars, guidVars>>

\* StringsScsu, StringsScsuFont, StringsUcs2, StringsUcs2Font
SibtStrings ==
    /\ AtBlock(MultiStringTypes)
    /\ LET block == sibt_parse.blocks[block_index]
       IN  IF block.Data = "None" THEN SibtPanic
           ELSE IF block.ok
                THEN SibtAdvance(InsertAll(string_id_map, current_string_index,
                                           block.strings), Len(block.strings))
                ELSE SibtAdvance(string_id_map, 0)
    /\ UNCHANGED <<overflow_checks, sibt_parse>>
    /\ UNCHANGED <<locVars, extVars, fwVars, guidVars>>

SibtDuplicateInserts ==
    /\ AtBlock({"Duplicate"})
    /\ SibtAdvance(MapInsert(string_id_map, current_string_index, ""), 1)
    /\ UNCHANGED <<overflow_checks, sibt_parse>>
    /\ UNCHANGED <<locVars, extVars, fwVars, guidVars>>

\* Duplicate: current_string_index += 1
SibtDuplicate ==
    /\ AtBlock({"Duplicate"})
    /\ SibtAdvance(string_id_map, 1)
    /\ UNCHANGED <<overflow_checks, sibt_parse>>
    /\ UNCHANGED <<locVars, extVars, fwVars, guidVars>>

SkipCountBigEndian(type, count) ==
    IF type = "Skip2" THEN 256 * count[1] + count[2] ELSE count[1]

\* Skip2: count[0] as u16 + 0x100 * count[1] as u16; Skip1: count[0] as u16
SkipCount(type, count) ==
    IF type = "Skip2" THEN count[1] + 256 * count[2] ELSE count[1]

\* Skip2 and Skip1: the count is read from the payload
SibtSkip ==
    /\ AtBlock({"Skip2", "Skip1"})
    /\ LET block == sibt_parse.blocks[block_index]
       IN  IF block.Data = "None" THEN SibtPanic
           ELSE SibtAdvance(string_id_map, SkipCount(block.Type, block.count))
    /\ UNCHANGED <<overflow_checks, sibt_parse>>
    /\ UNCHANGED <<locVars, extVars, fwVars, guidVars>>

\* End, Ext1, Ext2, Ext4, Unknown: empty arms
SibtOther ==
    /\ AtBlock({"End", "Ext1", "Ext2", "Ext4", "Unknown"})
    /\ SibtAdvance(string_id_map, 0)
    /\ UNCHANGED <<overflow_checks, sibt_parse>>
    /\ UNCHANGED <<locVars, extVars, fwVars, guidVars>>

\* strings.push((i, candidate.len(), string_package.Language, string_id_map))
SibtPush ==
    /\ spc = "loop" /\ block_index > Len(sibt_parse.blocks)
    /\ pushed' = Append(pushed, string_id_map)
    /\ spc' = "done"
    /\ UNCHANGED <<overflow_checks, sibt_parse, block_index, string_id_map,
                   current_string_index>>
    /\ UNCHANGED <<locVars, extVars, fwVars, guidVars>>

SibtNext ==
    \/ SibtParse
    \/ SibtString
    \/ SibtStrings
    \/ SibtDuplicate
    \/ SibtSkip
    \/ SibtOther
    \/ SibtPush

SpecSibt == SibtInit /\ [][SibtNext]_vars

(***************************************************************************)
(* framework_find_string_and_form_packages, the language and the           *)
(* string_id_map of one string package.  hii_string_package is library     *)
(* code: the pointers and strings it returns are an input, one string per  *)
(* pointer.                                                                *)
(***************************************************************************)
\* the most strings a payload lists one by one
MaxStrings == 3

\* a payload: the pointers and strings it lists one by one, and how many
\* more empty strings, each with a pointer 0, follow them
FrameworkPayloads ==
    {[StringPointers |-> ptrs, LanguageNameStringOffset |-> off, Strings |-> strs,
      more |-> 0] :
        ptrs \in UNION {[1..n -> {4, 8}] : n \in 0..MaxStrings},
        off \in {4, 8, 12},
        strs \in UNION {[1..n -> {"eng", "English"}] : n \in 0..MaxStrings}}

\* payloads of one string more than a u16 has values
LongPayloads ==
    {[StringPointers |-> <<4, 8>>, LanguageNameStringOffset |-> off,
      Strings |-> <<"eng", "English">>, more |-> IdCount - 1] : off \in {4, 8}}

\* a payload holds as many strings as pointers
FrameworkStringPayloads ==
    {p \in FrameworkPayloads : Len(p.StringPointers) = Len(p.Strings)}
    \cup LongPayloads

\* framework_parser::hii_string_package on a payload
HiiStringPackage(p) ==
    [StringPointers |-> p.StringPointers \o [idx \in 1..p.more |-> 0],
     LanguageNameStringOffset |-> p.LanguageNameStringOffset,
     Strings |-> p.Strings \o [idx \in 1..p.more |-> ""]]

\* if let Ok((_, spkg)) = framework_parser::hii_string_package(payload)
spkg == HiiStringPackage(string_payload)

LastPosition(ptrs, off) ==
    IF \E idx \in 1..Len(ptrs) : ptrs[idx] = off
    THEN (CHOOSE idx \in 1..Len(ptrs) :
              /\ ptrs[idx] = off
              /\ \A j \in (idx + 1)..Len(ptrs) : ptrs[j] # off) - 1
    ELSE 0

\* spkg.StringPointers.iter().position(|&off| off == LanguageNameStringOffset)
\*     .unwrap_or(0), an index from 0
Position(ptrs, off) ==
    IF \E idx \in 1..Len(ptrs) : ptrs[idx] = off
    THEN (CHOOSE idx \in 1..Len(ptrs) :
              /\ ptrs[idx] = off
              /\ \A j \in 1..(idx - 1) : ptrs[j] # off) - 1
    ELSE 0

\* spkg.Strings.get(lang_index).cloned().unwrap_or_default()
Language(strs, lang_index) ==
    IF lang_index < Len(strs) THEN strs[lang_index + 1] ELSE ""

\* idx as u16
AsU16(idx) == idx % IdCount

\* the last index that the conversion sends to this key
LastIndexOf(key, n) == key + IdCount * ((n - 1 - key) \div IdCount)

\* spkg.Strings.iter().cloned().enumerate().map(|(idx, s)| (idx as u16, s))
\*     .collect::<HashMap<_, _>>(): of two entries with one key the later stays
FrameworkStringIdMap(strs) ==
    [key \in {AsU16(idx) : idx \in 0..(Len(strs) - 1)} |->
        strs[LastIndexOf(key, Len(strs)) + 1]]

FwInit ==
    /\ string_payload \in FrameworkStringPayloads
    /\ kpc = "parsed"
    /\ framework_pushed = <<>>
    /\ LocIdle
    /\ ExtractIdle
    /\ SibtIdle
    /\ GuidIdle

\* the body of `if let Ok((_, spkg)) = hii_string_package(payload)`
FrameworkStringDecode ==
    /\ kpc = "parsed"
    /\ LET parsed_spkg == spkg
           lang_index == Position(parsed_spkg.StringPointers,
                                  parsed_spkg.LanguageNameStringOffset)
       IN  framework_pushed' =
               Append(framework_pushed,
                      [language |-> Language(parsed_spkg.Strings, lang_index),
                       string_id_map |-> FrameworkStringIdMap(parsed_spkg.Strings)])
    /\ kpc' = "done"
    /\ UNCHANGED string_payload
    /\ UNCHANGED <<locVars, extVars, sibtVars, guidVars>>

FwNext == FrameworkStringDecode

SpecFw == FwInit /\ [][FwNext]_vars

(***************************************************************************)
(* uefi_find_string_and_form_packages, the Guid arm of the form walk.      *)
(* ifr_guid, ifr_guid_edk2, ifr_guid_edk2_banner and ifr_guid_edk are      *)
(* library code: what they return is an input.                             *)
(***************************************************************************)
\* the longest payload of an extended opcode
MaxExtData == 3

\* the byte values a payload is drawn from
ExtBytes == {0, 1, 255}

ExtDatas == UNION {[1..n -> ExtBytes] : n \in 0..MaxExtData}

\* a Guid opcode: operation.Data, the result of ifr_guid and its Guid, the
\* result of ifr_guid_edk2 or ifr_guid_edk with ExtendedOpCode and Data, the
\* result of ifr_guid_edk2_banner with TitleId
GuidOperations ==
    {[Data |-> "Some", guid_ok |-> TRUE, Guid |-> "IFR_FRAMEWORK_GUID",
      ext_ok |-> ok, ExtendedOpCode |-> ext, ExtData |-> d, banner_ok |-> FALSE,
      TitleId |-> 0] :
        ok \in BOOLEAN, ext \in {"OptionKey", "VarEqName", "Unknown"}, d \in ExtDatas}
    \cup
    {[Data |-> "Some", guid_ok |-> TRUE, Guid |-> "IFR_TIANO_GUID",
      ext_ok |-> ok, ExtendedOpCode |-> ext, ExtData |-> <<1, 0>>, banner_ok |-> b,
      TitleId |-> 7] :
        ok \in BOOLEAN, ext \in {"Banner", "Label", "Timeout", "Class", "SubClass",
                                 "Unknown"}, b \in BOOLEAN}
    \cup
    {[Data |-> "Some", guid_ok |-> ok, Guid |-> "other", ext_ok |-> FALSE,
      ExtendedOpCode |-> "VarEqName", ExtData |-> <<1, 0>>, banner_ok |-> FALSE,
      TitleId |-> 0] : ok \in BOOLEAN}
    \cup {NoGuidData}

NameIdTimes256(data) == (((data[2] * 256) % IdCount) + data[1]) % IdCount

\* edk.Data[1] as u16 * 100 + edk.Data[0] as u16, in u16 arithmetic
NameId(data) == (((data[2] * 100) % IdCount) + data[1]) % IdCount

\* does the product or the sum leave the u16 range
NameIdOverflows(data) ==
    data[2] * 100 >= IdCount \/ ((data[2] * 100) % IdCount) + data[1] >= IdCount

GuidInit ==
    /\ guid_operation \in GuidOperations
    /\ gpc = "match"
    /\ guid_ids = <<>>
    /\ LocIdle
    /\ ExtractIdle
    /\ SibtIdle
    /\ FwIdle

\* uefi_parser::IfrOpcode::Guid => { .. }
UefiGuidOperation ==
    /\ gpc = "match"
    /\ LET op == guid_operation
       IN  IF op.Data = "None"
           THEN gpc' = "panicked" /\ UNCHANGED guid_ids
           ELSE /\ gpc' = "done"
                /\ guid_ids' =
                       IF ~op.guid_ok THEN guid_ids
                       ELSE IF op.Guid = "IFR_TIANO_GUID"
                            THEN IF op.ext_ok /\ op.ExtendedOpCode = "Banner"
                                    /\ op.banner_ok
                                 THEN Append(guid_ids, op.TitleId)
                                 ELSE guid_ids
                       ELSE IF op.Guid = "IFR_FRAMEWORK_GUID"
                            THEN IF op.ext_ok /\ op.ExtendedOpCode = "VarEqName"
                                    /\ Len(op.ExtData) = 2
                                 THEN Append(guid_ids, NameId(op.ExtData))
                                 ELSE guid_ids
                       ELSE guid_ids
    /\ UNCHANGED guid_operation
    /\ UNCHANGED <<locVars, extVars, sibtVars, fwVars>>

GuidNext == UefiGuidOperation

SpecGuid == GuidInit /\ [][GuidNext]_vars

(***************************************************************************)
(* Properties of the locators                                              *)
(***************************************************************************)
Range(s) == {s[k] : k \in 1..Len(s)}

MinOf(S) == CHOOSE x \in S : \A y \in S : x <= y

MaxOf(S) == CHOOSE x \in S : \A y \in S : y <= x

InBounds(list) ==
    \A k \in 1..Len(list) : list[k].offset + list[k].length <= data_len

Ascending(list) ==
    \A k \in 1..(Len(list) - 1) : list[k].offset < list[k + 1].offset

Disjoint(list) ==
    \A k, l \in 1..Len(list) :
        k # l => \/ list[k].offset + list[k].length <= list[l].offset
                 \/ list[l].offset + list[l].length <= list[k].offset

\* the last probe matched a candidate whose package and body parsed
Accepted(p) == p.cand >= 0 /\ p.pkg /\ p.Data = "Some" /\ p.body

\* the string IDs collected from the opcode stream of the last probe
Collected(p) ==
    Range(IF dialect = "UEFI" THEN UefiStringIds(p.operations)
          ELSE FrameworkStringIds(p.operations))

FormProbed == pc \in {"form_scan", "done"} /\ Accepted(parsed)

\* C1: every descriptor of the returned lists lies within the input:
\* offset + length <= data.len(), for string and form packages, both dialects.
C1_DescriptorsInBounds ==
    pc = "done" => InBounds(result.strings) /\ InBounds(result.forms)

C1_Witness ==
    /\ pc = "done"
    /\ \E k \in 1..Len(result.strings) :
          /\ result.strings[k].offset > 0
          /\ result.strings[k].offset + result.strings[k].length = data_len
    /\ \E k \in 1..Len(result.forms) :
          /\ result.forms[k].offset > 0
          /\ result.forms[k].offset + result.forms[k].length = data_len

\* C2: both scan loops terminate and the call returns without panicking:
\* every iteration of a scan moves the index forward and no step panics.
C2_ScansAdvanceWithoutPanic ==
    [][pc' # "panicked" /\ (pc' = pc => i' > i)]_vars

\* the part of C2 that is about the scan index alone
ScanIndexIncreases == [][pc' = pc => i' > i]_vars

\* C3: in each returned list the descriptors are in strictly ascending
\* offset order.
C3_AscendingOffsets ==
    pc = "done" => Ascending(result.strings) /\ Ascending(result.forms)

C3_Witness ==
    pc = "done" /\ Len(result.strings) >= 2 /\ Len(result.forms) >= 2

\* C4: within the returned string list, and within the returned form list,
\* the byte ranges of two distinct descriptors are disjoint; they are so
\* already in the lists the scans build.
C4_DisjointRanges ==
    /\ Disjoint(string_packages) /\ Disjoint(form_packages)
    /\ pc = "done" => Disjoint(result.strings) /\ Disjoint(result.forms)

C4_Witness ==
    /\ pc = "done"
    /\ \E k \in 1..(Len(result.forms) - 1) :
          result.forms[k].offset + result.forms[k].length = result.forms[k + 1].offset
    /\ \E k \in 1..(Len(result.strings) - 1) :
          result.strings[k].offset + result.strings[k].length
              = result.strings[k + 1].offset

C6_BothOrNeither ==
    pc = "done" =>
        /\ (result.strings = <<>>) <=> (result.forms = <<>>)
        /\ (string_packages = <<>> \/ form_packages = <<>>) => result = NoResult
        /\ data_len = 0 => result = NoResult

C6_Witness ==
    pc = "done" /\ string_packages # <<>> /\ form_packages = <<>> /\ result = NoResult

\* C7: every form package a locator records has used_strings >= 1 and
\* min_string_id <= max_string_id, and a form package whose opcode stream
\* yields no string ID is not recorded.
C7_FormPackagesUseStrings ==
    /\ \A k \in 1..Len(form_packages) :
          /\ form_packages[k].used_strings >= 1
          /\ form_packages[k].min_string_id <= form_packages[k].max_string_id
    /\ \A k \in 1..Len(result.forms) :
          /\ result.forms[k].used_strings >= 1
          /\ result.forms[k].min_string_id <= result.forms[k].max_string_id
    /\ (FormProbed /\ Collected(parsed) = {}) =>
          \A k \in 1..Len(form_packages) : form_packages[k].offset # i - parsed.cand

C7_Witness ==
    /\ pc = "done" /\ result.forms # <<>>
    /\ Accepted(parsed) /\ parsed.operations # <<>> /\ Collected(parsed) = {}

\* C8: for a recorded form package, used_strings is the number of distinct
\* string IDs collected from its opcode stream, min_string_id the smallest
\* and max_string_id the largest of them.
C8_IdSetConsistency ==
    (FormProbed /\ Collected(parsed) # {}) =>
        /\ form_packages # <<>>
        /\ LET f == form_packages[Len(form_packages)]
           IN  /\ f.offset = i - parsed.cand
               /\ f.used_strings = Cardinality(Collected(parsed))
               /\ f.min_string_id = MinOf(Collected(parsed))
               /\ f.max_string_id = MaxOf(Collected(parsed))

\* two opcodes share an ID and the IDs are collected out of order
C8_Witness ==
    /\ FormProbed /\ Len(parsed.operations) >= 2
    /\ Cardinality(Collected(parsed)) = 2
    /\ \E k, l \in 1..Len(parsed.operations) :
          /\ k < l
          /\ parsed.operations[k].ids # <<>>
          /\ parsed.operations[l].ids # <<>>
          /\ parsed.operations[k].ids[1] > parsed.operations[l].ids[1]
          /\ \E m \in 1..Len(parsed.operations[l].ids) :
                parsed.operations[l].ids[m] = parsed.operations[k].ids[1]
    /\ form_packages # <<>>

(***************************************************************************)
(* Properties of the formatters                                            *)
(***************************************************************************)
ClosingOpcodes == {"End", "EndForm", "EndFormSet"}

\* the opcode lines whose scope is still open after the first n opcode
\* lines, innermost last
RECURSIVE OpenScopes(_)
OpenScopes(n) ==
    IF n = 0 THEN <<>>
    ELSE LET s == OpenScopes(n - 1)
             rest == IF scope_log[n].closed /\ s # <<>>
                     THEN SubSeq(s, 1, Len(s) - 1) ELSE s
         IN  IF scope_log[n].opened THEN Append(rest, n) ELSE rest

\* opcode line k is line k + 1 of text, after the preamble
OpLine(k) == text[k + 1]

\* C9: extract_uefi_ifr and extract_framework_ifr never panic, whatever the
\* buffer and the descriptor, a descriptor offset beyond the buffer length
\* included.
C9_ExtractNeverPanics == fpc # "panicked"

\* C10: every closing opcode (End; EndForm, EndFormSet) that closes an open
\* scope is printed with the indentation of the opcode that opened that
\* scope.
C10_CloserIndentEqualsOpener ==
    \A k \in 1..Len(scope_log) :
        (OpLine(k).OpCode \in ClosingOpcodes /\ scope_log[k].closed) =>
            LET s == OpenScopes(k - 1)
            IN  /\ s # <<>>
                /\ OpLine(s[Len(s)]).indent = OpLine(k).indent

\* a finished text with two nested scopes, both closed
C10_Witness ==
    /\ fpc = "done"
    /\ \E j, k \in 1..Len(scope_log) :
          /\ j < k
          /\ scope_log[j].closed /\ OpLine(j).indent = 1
          /\ scope_log[k].closed /\ OpLine(k).indent = 0
          /\ OpenScopes(k) = <<>>

\* the on-wire lengths of the first n opcodes, summed
RECURSIVE LengthSum(_)
LengthSum(n) == IF n = 0 THEN 0 ELSE LengthSum(n - 1) + operations[n].Length

\* C11: with verbose set, the first opcode line is prefixed with
\* form_pkg.offset + 4 (UEFI) or + 6 (Framework), and every later line with
\* the previous line's offset plus the previous opcode's length.
C11_VerboseOffsets ==
    verbose =>
        \A k \in 1..Len(scope_log) :
            /\ k = 1 => OpLine(k).prefix =
                            form_offset + (IF mode = "UEFI" THEN 4 ELSE 6)
            /\ k > 1 => OpLine(k).prefix =
                            OpLine(k - 1).prefix + operations[k - 1].Length
            /\ OpLine(k).prefix = form_offset + HeaderSize(mode) + LengthSum(k - 1)

\* a verbose text of three lines whose opcodes differ in length, for a
\* descriptor that does not start the buffer
C11_Witness ==
    /\ fpc = "done" /\ verbose /\ form_offset > 0
    /\ Len(scope_log) >= 3
    /\ operations[1].Length # operations[2].Length
    /\ OpLine(3).prefix > OpLine(2).prefix

\* the opcode has no payload, or its payload parser rejects the payload
PayloadFails(op) ==
    op.Data = "None" \/ (op.OpCode # "Unknown" /\ ~op.ok)

UnknownLine(k) ==
    operations[k].OpCode = "Unknown" /\ operations[k].Data = "Some"

\* C13: the line of an opcode with an unrecognised tag and a raw payload is
\* the name Unknown followed by RawData and the payload bytes, in
\* extract_uefi_ifr as well as in extract_framework_ifr.
C13_UnknownRawData ==
    \A k \in 1..Len(scope_log) :
        UnknownLine(k) =>
            OpLine(k).OpCode = "Unknown" /\ OpLine(k).payload = "RawData"

\* the part of C13 that is about extract_framework_ifr
FrameworkUnknownRawData ==
    mode = "Framework" => C13_UnknownRawData

\* C14: extract_uefi_ifr prints every opcode that carries string IDs for the
\* cross-referencer, FormSet first of all, with its key: value list when
\* its payload parses.
C14_UefiStringOpcodesPrinted ==
    mode = "UEFI" =>
        \A k \in 1..Len(scope_log) :
            ( /\ operations[k].OpCode \in UefiStringOpcodes
              /\ operations[k].Data = "Some" /\ operations[k].ok )
            => OpLine(k).payload = "fields"

\* C15: a string operand whose ID is no key of string_pkg.string_id_map is
\* printed as the literal InvalidId and the formatter goes on; an operand
\* whose ID is a key is printed as the mapped string.
C15_InvalidIdOnMiss ==
    \A k \in 1..Len(scope_log) :
        OpLine(k).payload = "fields" =>
            /\ Len(OpLine(k).strings) = Len(operations[k].ids)
            /\ \A j \in 1..Len(operations[k].ids) :
                  LET id == operations[k].ids[j]
                  IN  /\ id \notin DOMAIN strings_map =>
                            OpLine(k).strings[j] = "InvalidId"
                      /\ id \in DOMAIN strings_map =>
                            OpLine(k).strings[j] = strings_map[id]

\* a finished text with a line that holds a resolved string and InvalidId,
\* followed by another opcode line
C15_Witness ==
    /\ fpc = "done"
    /\ \E k \in 1..(Len(scope_log) - 1) :
          \E j, l \in 1..Len(OpLine(k).strings) :
              /\ OpLine(k).strings[j] = "InvalidId"
              /\ operations[k].ids[j] \notin DOMAIN strings_map
              /\ OpLine(k).strings[l] = "Title"

\* C16: two calls of a formatter with the same buffer, descriptor, string
\* table and verbose flag return the same text, and the second call reads
\* nothing the first call wrote: it ends as the first did, without panic.
C16_RepeatedCallSameText ==
    call = 2 =>
        /\ fpc # "panicked"
        /\ fpc = "done" => text = first_text

\* the second call has returned a verbose text of three lines or more, and
\* the first call had ended with a scope still open
C16_Witness ==
    /\ call = 2 /\ fpc = "done" /\ verbose
    /\ Len(text) >= 4 /\ scope_depth > 0
    /\ \E k \in 1..Len(scope_log) : OpLine(k).strings # <<>>

\* one iteration of the Framework formatter's loop: the opcode it formats,
\* the line it writes, scope_depth before and after; openers is the set of
\* opcodes taken to open a scope
FrameworkStep(openers) ==
    (mode = "Framework" /\ fpc = "loop" /\ op_index' = op_index + 1) =>
        LET op == operations[op_index]
            line == text'[Len(text')]
            closes == op.OpCode \in {"EndFormSet", "EndForm"}
        IN  /\ line.OpCode = op.OpCode
            /\ line.indent = IF closes
                              THEN (IF scope_depth > 0 THEN scope_depth - 1 ELSE 0)
                              ELSE scope_depth
            /\ scope_depth' = IF op \in openers THEN line.indent + 1
                               ELSE line.indent

EveryFormOpens ==
    {op \in FrameworkExtractOperations : op.OpCode \in {"FormSet", "Form"}}

ParsedFormOpens ==
    {op \in EveryFormOpens : op.Data = "Some" /\ op.ok}

C18_UefiDepthNeverNegative ==
    [][(mode = "UEFI" /\ fpc = "loop" /\ op_index' = op_index + 1) =>
          LET op == operations[op_index]
              line == text'[Len(text')]
          IN  /\ scope_depth >= 0 /\ scope_depth' >= 0
              /\ line.indent = IF op.OpCode = "End" /\ scope_depth > 0
                                THEN scope_depth - 1 ELSE scope_depth
              /\ scope_depth' = IF op.ScopeStart THEN line.indent + 1
                                 ELSE line.indent]_vars

\* an End at depth 0 printed at column 0, then an opcode with scope_start
\* at column 0 and the line after it at column 1
C18_Witness ==
    /\ mode = "UEFI" /\ fpc = "done" /\ Len(scope_log) >= 3
    /\ OpLine(1).OpCode = "End" /\ OpLine(1).indent = 0
    /\ operations[2].ScopeStart /\ OpLine(2).indent = 0
    /\ OpLine(3).indent = 1

(***************************************************************************)
(* Properties of the UEFI string table                                     *)
(***************************************************************************)
\* does the walk insert at least one string for this block
Decodes(block) ==
    /\ block.Type \in SingleStringTypes \cup MultiStringTypes
    /\ block.Data = "Some" /\ block.ok /\ block.strings # <<>>

\* is any string decoded from the block stream
HasDecoded == \E k \in 1..Len(sibt_parse.blocks) : Decodes(sibt_parse.blocks[k])

\* the position of the first block a string is decoded from
FirstDecodedAt ==
    CHOOSE k \in 1..Len(sibt_parse.blocks) :
        /\ Decodes(sibt_parse.blocks[k])
        /\ \A j \in 1..(k - 1) : ~Decodes(sibt_parse.blocks[j])

\* the first string decoded from the block stream
FirstDecoded == sibt_parse.blocks[FirstDecodedAt].strings[1]

\* by how many IDs a block moves the counter
IdsTaken(block) ==
    IF block.Type = "Duplicate" THEN 1
    ELSE IF block.Type \in {"Skip2", "Skip1"}
         THEN SkipCount(block.Type, block.count)
    ELSE IF Decodes(block) THEN Len(block.strings)
    ELSE 0

\* by how many IDs the first n blocks move the counter
RECURSIVE IdsTakenBy(_)
IdsTakenBy(n) ==
    IF n = 0 THEN 0 ELSE IdsTakenBy(n - 1) + IdsTaken(sibt_parse.blocks[n])

\* the counter stays within its 16 bits over the whole stream
NoWrap == 1 + IdsTakenBy(Len(sibt_parse.blocks)) < IdCount

OnlyStringBlocks ==
    \A k \in 1..Len(sibt_parse.blocks) :
        sibt_parse.blocks[k].Type \in SingleStringTypes \cup MultiStringTypes

\* a map that has strs at the IDs from id on, and is old everywhere else
HoldsFrom(new, old, id, strs) ==
    LET at(j) == (id + j - 1) % IdCount
    IN  /\ DOMAIN new = DOMAIN old \cup {at(j) : j \in 1..Len(strs)}
        /\ \A j \in 1..Len(strs) :
               (\A l \in (j + 1)..Len(strs) : at(l) # at(j)) => new[at(j)] = strs[j]
        /\ \A x \in DOMAIN old :
               x \notin {at(j) : j \in 1..Len(strs)} => new[x] = old[x]

\* C20: while the UEFI string table is built, a single-string block
\* (StringScsu, StringScsuFont, StringUcs2, StringUcs2Font) that decodes
\* puts its string at the current ID and moves the u16 counter on by exactly
\* 1; a multi-string block that decodes puts its strings at consecutive IDs
\* from the current one and moves the counter on by their number; so the IDs
\* of a returned table whose stream holds string blocks only are dense from 0.
C20_StringBlocksTakeTheirIds ==
    [][/\ (spc = "loop" /\ block_index' = block_index + 1) =>
              LET block == sibt_parse.blocks[block_index]
              IN  /\ (block.Type \in SingleStringTypes /\ block.ok) =>
                         /\ Len(block.strings) = 1
                         /\ HoldsFrom(string_id_map', string_id_map,
                                      current_string_index, block.strings)
                         /\ current_string_index' =
                                (current_string_index + 1) % IdCount
                  /\ (block.Type \in MultiStringTypes /\ block.ok) =>
                         /\ HoldsFrom(string_id_map', string_id_map,
                                      current_string_index, block.strings)
                         /\ current_string_index' =
                                (current_string_index + Len(block.strings)) % IdCount
       /\ (pushed' # pushed /\ OnlyStringBlocks) =>
              /\ current_string_index = 1 + IdsTakenBy(Len(sibt_parse.blocks))
              /\ DOMAIN pushed'[Len(pushed')] = 0..(current_string_index - 1)]_vars

\* a table is returned for a stream of a single-string block that decodes, a
\* multi-string block with two strings and nothing but string blocks
C20_Witness ==
    /\ spc = "done" /\ Len(pushed) = 1 /\ OnlyStringBlocks
    /\ \E k \in 1..Len(sibt_parse.blocks) :
           /\ sibt_parse.blocks[k].Type \in SingleStringTypes
           /\ sibt_parse.blocks[k].ok
    /\ \E k \in 1..Len(sibt_parse.blocks) :
           /\ sibt_parse.blocks[k].Type \in MultiStringTypes
           /\ Len(sibt_parse.blocks[k].strings) = 2
    /\ DOMAIN pushed[1] = 0..3

\* C21: while the UEFI string table is built, a Skip1 block moves the u16
\* counter on by the first byte of its payload, a Skip2 block by the
\* little-endian u16 of its payload, and End, Ext1, Ext2 and Ext4 blocks
\* leave the counter as it is; none of these blocks changes the table.
C21_SkipAndExtBlocks ==
    [][(spc = "loop" /\ block_index' = block_index + 1) =>
          LET block == sibt_parse.blocks[block_index]
          IN  /\ block.Type = "Skip1" =>
                     /\ string_id_map' = string_id_map
                     /\ current_string_index' =
                            (current_string_index + block.count[1]) % IdCount
              /\ block.Type = "Skip2" =>
                     /\ string_id_map' = string_id_map
                     /\ current_string_index' =
                            (current_string_index + block.count[1]
                                 + 256 * block.count[2]) % IdCount
              /\ block.Type \in {"End", "Ext1", "Ext2", "Ext4"} =>
                     /\ string_id_map' = string_id_map
                     /\ current_string_index' = current_string_index]_vars

\* a table is returned for a stream with a Skip1 block, a Skip2 block whose
\* two payload bytes differ and an Ext block: the Skip1 of 2
\* and the Skip2 of 0x0102 leave the counter at 261
C21_Witness ==
    /\ spc = "done" /\ Len(pushed) = 1
    /\ \E k \in 1..Len(sibt_parse.blocks) : sibt_parse.blocks[k].Type = "Skip1"
    /\ \E k \in 1..Len(sibt_parse.blocks) :
           /\ sibt_parse.blocks[k].Type = "Skip2"
           /\ sibt_parse.blocks[k].count = <<2, 1>>
    /\ \E k \in 1..Len(sibt_parse.blocks) :
           sibt_parse.blocks[k].Type \in {"End", "Ext1", "Ext2", "Ext4"}
    /\ current_string_index = 261
    /\ DOMAIN pushed[1] = {0}

\* the ID the counter holds when the walk reaches block k
IdAt(k) == (1 + IdsTakenBy(k - 1)) % IdCount

\* C22: a Duplicate block moves the u16 counter on by 1 and inserts nothing.
\* In a returned table the ID it took is absent (the counter not having
\* wrapped, no other block can assign it), so the formatter's lookup of that
\* ID gives InvalidId, and a string decoded from the block after the
\* Duplicate is stored one ID above it.
C22_DuplicateLeavesGap ==
    [][/\ (AtBlock({"Duplicate"}) /\ block_index' = block_index + 1) =>
              /\ string_id_map' = string_id_map
              /\ current_string_index' = (current_string_index + 1) % IdCount
       /\ (pushed' # pushed /\ NoWrap) =>
              \A k \in 1..Len(sibt_parse.blocks) :
                  sibt_parse.blocks[k].Type = "Duplicate" =>
                      LET map == pushed'[Len(pushed')]
                      IN  /\ IdAt(k) \notin DOMAIN map
                          /\ Resolve(map, IdAt(k)) = "InvalidId"
                          /\ (k < Len(sibt_parse.blocks)
                              /\ Decodes(sibt_parse.blocks[k + 1])) =>
                                 /\ IdAt(k) + 1 \in DOMAIN map
                                 /\ map[IdAt(k) + 1] =
                                        sibt_parse.blocks[k + 1].strings[1]]_vars

\* a table is returned for a string, a Duplicate and another string: IDs 0,
\* 1 and 3, a lookup of ID 2 gives InvalidId
C22_Witness ==
    /\ spc = "done" /\ Len(pushed) = 1 /\ Len(sibt_parse.blocks) = 3
    /\ sibt_parse.blocks[2].Type = "Duplicate"
    /\ DOMAIN pushed[1] = {0, 1, 3}
    /\ Resolve(pushed[1], 2) = "InvalidId"
    /\ pushed[1][3] = sibt_parse.blocks[3].strings[1]

\* C23: for any SIBT block sequence the u16 counter never overflows: every
\* addition keeps it within 0..65535, so the counter is always 1 plus the IDs
\* the blocks walked so far have taken, the walk panics on no addition, and
\* no returned table has lost the empty string at the reserved ID 0.
C23_CounterNeverOverflows ==
    /\ (sibt_parse.ok /\ spc \in {"loop", "done"}) =>
           current_string_index = 1 + IdsTakenBy(block_index - 1)
    /\ spc = "panicked" => sibt_parse.blocks[block_index].Data = "None"
    /\ \A k \in 1..Len(pushed) : 0 \in DOMAIN pushed[k] /\ pushed[k][0] = ""

(***************************************************************************)
(* Properties of the Framework string table                                *)
(***************************************************************************)
\* C24: the language of a Framework string package is the decoded string at
\* the first index whose string pointer equals LanguageNameStringOffset; when
\* no pointer matches it is the string at index 0, and when the package has
\* no strings it is the empty string.
C24_LanguageOfPackage ==
    \A k \in 1..Len(framework_pushed) :
        LET parsed_spkg == spkg
            ptrs == parsed_spkg.StringPointers
            off == parsed_spkg.LanguageNameStringOffset
            strs == parsed_spkg.Strings
            lang == framework_pushed[k].language
        IN  /\ strs = <<>> => lang = ""
            /\ \A idx \in 1..Len(ptrs) :
                   (ptrs[idx] = off /\ \A j \in 1..(idx - 1) : ptrs[j] # off)
                       => lang = strs[idx]
            /\ (strs # <<>> /\ \A idx \in 1..Len(ptrs) : ptrs[idx] # off)
                   => lang = strs[1]

\* a descriptor is pushed for a package whose second and third pointers both
\* match, with a string at index 1 that differs from those at 0 and 2
C24_Witness ==
    /\ kpc = "done" /\ Len(framework_pushed) = 1
    /\ Len(spkg.StringPointers) = 3
    /\ spkg.StringPointers[1] # spkg.LanguageNameStringOffset
    /\ spkg.StringPointers[2] = spkg.LanguageNameStringOffset
    /\ spkg.StringPointers[3] = spkg.LanguageNameStringOffset
    /\ spkg.Strings[2] # spkg.Strings[1] /\ spkg.Strings[2] # spkg.Strings[3]
    /\ framework_pushed[1].language = spkg.Strings[2]

\* a descriptor is pushed for a package none of whose pointers matches
C24_FallbackReached ==
    /\ kpc = "done" /\ Len(framework_pushed) = 1
    /\ Len(spkg.Strings) = 2 /\ spkg.Strings[1] # spkg.Strings[2]
    /\ \A idx \in 1..2 : spkg.StringPointers[idx] # spkg.LanguageNameStringOffset
    /\ framework_pushed[1].language = spkg.Strings[1]

\* C25: the string_id_map of a Framework string package has exactly one
\* entry per decoded string, with key i mapped to the i-th string for every
\* index i of the string vector: the conversion of an index to a u16 key
\* never makes two indices share a key.
C25_OneEntryPerString ==
    \A k \in 1..Len(framework_pushed) :
        LET map == framework_pushed[k].string_id_map
            strs == spkg.Strings
        IN  /\ Cardinality(DOMAIN map) = Len(strs)
            /\ \A idx \in 0..(Len(strs) - 1) :
                   AsU16(idx) \in DOMAIN map /\ map[AsU16(idx)] = strs[idx + 1]

\* the same, for the packages of at most as many strings as a u16 has values
UpToIdCountOneEntryPerString ==
    \A k \in 1..Len(framework_pushed) :
        LET map == framework_pushed[k].string_id_map
            strs == spkg.Strings
        IN  Len(strs) <= IdCount =>
                /\ DOMAIN map = 0..(Len(strs) - 1)
                /\ \A idx \in 0..(Len(strs) - 1) : map[idx] = strs[idx + 1]

(***************************************************************************)
(* Properties of the Guid arm of the UEFI cross-referencer                 *)
(***************************************************************************)
\* is the opcode a Guid opcode with the Framework GUID and the extended
\* opcode VarEqName
IsVarEqName(op) ==
    /\ op.Data = "Some" /\ op.guid_ok /\ op.Guid = "IFR_FRAMEWORK_GUID"
    /\ op.ext_ok /\ op.ExtendedOpCode = "VarEqName"

\* C26: in the UEFI cross-referencer a Guid opcode with the Framework GUID
\* and the extended opcode VarEqName contributes the string ID
\* byte1 * 100 + byte0 when its extension payload is exactly 2 bytes and no ID
\* for any other payload length; the computation never leaves the u16 range.
C26_VarEqNameId ==
    (gpc # "match" /\ IsVarEqName(guid_operation)) =>
        LET data == guid_operation.ExtData
        IN  /\ gpc = "done"
            /\ Len(data) = 2 =>
                   /\ guid_ids = <<data[2] * 100 + data[1]>>
                   /\ data[2] * 100 + data[1] < IdCount
                   /\ ~NameIdOverflows(data)
            /\ Len(data) # 2 => guid_ids = <<>>

\* the payload FF FF has contributed the largest ID, 25755
C26_Witness ==
    /\ gpc = "done" /\ IsVarEqName(guid_operation)
    /\ guid_operation.ExtData = <<255, 255>>
    /\ guid_ids = <<25755>>

\* a payload of 3 bytes has contributed nothing
C26_OtherLengthsReached ==
    /\ gpc = "done" /\ IsVarEqName(guid_operation)
    /\ Len(guid_operation.ExtData) = 3 /\ guid_ids = <<>>

(***************************************************************************)
(* Properties of the formatters: failed re-parse, verbose, arguments       *)
(***************************************************************************)
\* the bytes at form_pkg.offset were re-parsed as a form package: candidate,
\* package and opcode stream
Reparsed == form_parse.cand >= 0 /\ form_parse.pkg /\ form_parse.body

\* is this line the preamble of this formatter
IsPreamble(line, m) ==
    /\ line.OpCode = "Preamble" /\ line.payload = m
    /\ line.prefix = -1 /\ line.indent = 0 /\ line.strings = <<>>

\* C27: when the bytes at form_pkg.offset cannot be re-parsed as a form
\* package (the candidate match, the package parse or the parse of the opcode
\* stream fails), the formatter returns the one-line preamble with its mode
\* and nothing else; in every case the preamble is the first line of the text.
C27_PreambleOnly ==
    /\ (fpc = "done" /\ ~Reparsed) =>
           Len(text) = 1 /\ IsPreamble(text[1], mode)
    /\ fpc \in {"loop", "done"} =>
           Len(text) >= 1 /\ IsPreamble(text[1], mode)

\* a call has returned after the parse of the opcode stream failed
C27_Witness ==
    /\ fpc = "done" /\ form_parse.cand >= 0 /\ form_parse.pkg /\ ~form_parse.body
    /\ Len(text) = 1 /\ IsPreamble(text[1], mode)

\* C28: for the same buffer, form_pkg and string_pkg, the verbose text is
\* the non-verbose text with an offset prefix added at the start of each
\* opcode line: the preamble, the number of lines, and the indentation, name
\* and payload of every line are the same.
C28_VerboseOnlyAddsPrefix ==
    (call = 2 /\ fpc = "done") =>
        LET with == IF verbose THEN text ELSE first_text
            without == IF verbose THEN first_text ELSE text
        IN  /\ Len(with) = Len(without)
            /\ with[1] = without[1]
            /\ \A k \in 2..Len(with) :
                   /\ without[k].prefix = -1
                   /\ with[k].prefix >= 0
                   /\ [with[k] EXCEPT !.prefix = -1] = without[k]

\* both calls have returned MaxLines opcode lines, one of them indented
C28_Witness ==
    /\ call = 2 /\ fpc = "done" /\ verbose
    /\ Len(text) = 1 + MaxLines /\ Len(first_text) = 1 + MaxLines
    /\ \E k \in 2..Len(text) : text[k].indent > 0
    /\ \A k \in 2..Len(text) : text[k].prefix >= 0 /\ first_text[k].prefix = -1

\* C29: the text a formatter returns depends only on the buffer,
\* form_pkg.offset, string_pkg.string_id_map and verbose: a call that differs
\* from another only in form_pkg.length, used_strings, min_string_id,
\* max_string_id, or in string_pkg.offset, length or language, ends as the
\* other did and returns the same text.
C29_OtherFieldsNotRead ==
    (call = 2 /\ other_fields # LocatedFields) =>
        /\ fpc # "panicked"
        /\ fpc = "done" => text = first_text

\* a second call with another ID range and another language has returned
\* MaxLines opcode lines, one of them with a string of the table
C29_Witness ==
    /\ call = 2 /\ fpc = "done"
    /\ other_fields.min_string_id # LocatedFields.min_string_id
    /\ other_fields.language # LocatedFields.language
    /\ Len(text) = 1 + MaxLines /\ text = first_text
    /\ \E k \in 2..Len(text) : text[k].strings # <<>> /\ text[k].strings[1] = "Title"

(***************************************************************************)
(* Properties of the two scans of a locator                                *)
(***************************************************************************)
\* do the byte ranges of a string package and a form package overlap
Overlap(sp, fp) ==
    sp.offset < fp.offset + fp.length /\ fp.offset < sp.offset + sp.length

\* C30: the string scan and the form scan of a locator are independent
\* passes over the whole buffer.  The form scan starts at offset 0 with an
\* empty form list once the string list is not empty; each of its iterations
\* leaves the string list alone and moves the index and the form list by
\* what the parsers returned at the index, whatever string packages were
\* recorded.
C30_ScansIndependent ==
    [][/\ (pc = "string_scan" /\ pc' = "form_scan") =>
              i' = 0 /\ form_packages' = <<>> /\ string_packages # <<>>
       /\ (pc = "form_scan" /\ pc' = "form_scan") =>
              /\ string_packages' = string_packages
              /\ IF Accepted(parsed') /\ Collected(parsed') # {}
                 THEN /\ Len(form_packages') = Len(form_packages) + 1
                      /\ SubSeq(form_packages', 1, Len(form_packages)) = form_packages
                      /\ form_packages'[Len(form_packages')].offset = i
                      /\ form_packages'[Len(form_packages')].length = parsed'.cand
                 ELSE form_packages' = form_packages
              /\ i' \in {i + 1, i + parsed'.cand}]_vars

\* a locator has returned a form package that starts inside a string
\* package it returned
C30_Witness ==
    /\ pc = "done"
    /\ \E s \in 1..Len(result.strings) : \E f \in 1..Len(result.forms) :
           /\ Overlap(result.strings[s], result.forms[f])
           /\ result.strings[s].offset < result.forms[f].offset

=============================================================================
